---- MODULE Spec2Model ----
(***************************************************************************)
(* Model of src/src/illustrator/server.py: the MCP tool dispatcher         *)
(* handleCallTool, the capture path captureIllustrator (with the           *)
(* AppleScript control script it generates), and the script path           *)
(* runIllustratorScript (with the escaping of the caller's code).          *)
(*                                                                         *)
(* Text is modelled as a sequence of one-character strings; a fixed        *)
(* literal of a Python f-string is one element of the sequence of a        *)
(* response text, the interpolated value follows it character by           *)
(* character.                                                              *)
(***************************************************************************)
EXTENDS Naturals, Sequences, FiniteSets

VARIABLES
    pc,         \* per call: position of its handleCallTool invocation
    req,        \* per call: the request (tool name, arguments)
    child,      \* per call: the osascript child process it launched
    launches,   \* per call: number of subprocess.run launches
    files,      \* per call: state of the temp file path it created
    created,    \* per call: whether NamedTemporaryFile created a path
    fileSeen,   \* per call: state of the file at the check on line 128
    response,   \* per call: the list of content items returned
    raised,     \* per call: exception that left handleCallTool
    frontmost,  \* the application that has UI focus
    code,       \* escaping: the caller's code string
    literal,    \* escaping: the escaped text placed between the quotes
    decoded,    \* escaping: what the control script's literal denotes
    epc         \* escaping: position of the escaping pipeline

vars == <<pc, req, child, launches, files, created, fileSeen, response,
          raised, frontmost, code, literal, decoded, epc>>

dispatchVars == <<pc, req, child, launches, files, created, fileSeen,
                  response, raised, frontmost>>

escapeVars == <<code, literal, decoded, epc>>

----------------------------------------------------------------------------
(* Bounds *)

MaxCalls == 2

MaxCodeLen == 3

CallIds == 1 .. MaxCalls


----------------------------------------------------------------------------
(* Characters and text *)

DQ == "\""

BS == "\\"

NL == "\n"

SP == " "

Whitespace == {SP, NL}

\* characters the caller's code is drawn from
Alphabet == {DQ, BS, NL, "n", "a"}

Codes == UNION {[1 .. n -> Alphabet] : n \in 0 .. MaxCodeLen}

Sentinel == <<"E", "R", "R", "O", "R", ":">>

SuccessTag == <<"S", "U", "C", "C", "E", "S", "S", ":">>

\* str.startswith
StartsWith(s, p) ==
    /\ Len(s) >= Len(p)
    /\ SubSeq(s, 1, Len(p)) = p

RECURSIVE LStrip(_)
LStrip(s) ==
    IF s # <<>> /\ Head(s) \in Whitespace THEN LStrip(Tail(s)) ELSE s

RECURSIVE RStrip(_)
RStrip(s) ==
    IF s # <<>> /\ s[Len(s)] \in Whitespace
    THEN RStrip(SubSeq(s, 1, Len(s) - 1))
    ELSE s

\* str.strip
Strip(s) == RStrip(LStrip(s))

----------------------------------------------------------------------------
(* Escaping of the caller's code, runIllustratorScript line 165 *)

RECURSIVE Replace(_, _, _)
\* str.replace of the one-character string old by the text new
Replace(s, old, new) ==
    IF s = <<>> THEN <<>>
    ELSE (IF Head(s) = old THEN new ELSE <<Head(s)>>)
         \o Replace(Tail(s), old, new)

Escape(s) == Replace(Replace(s, DQ, <<BS, DQ>>), NL, <<BS, "n">>)

RECURSIVE ReadFrom(_, _, _)
\* The AppleScript reader on the text after the opening quote of
\* do javascript "...": s is the escaped code followed by the closing quote
\* of the template. status: "closed" when the literal ends at the template's
\* closing quote, "early" when an unescaped quote inside the code ends it,
\* "badescape" on an escape the language does not define, "unterminated"
\* when the template's closing quote was consumed by an escape.
ReadFrom(s, i, acc) ==
    IF i > Len(s) THEN [value |-> acc, status |-> "unterminated"]
    ELSE IF s[i] = DQ
         THEN [value |-> acc,
               status |-> IF i = Len(s) THEN "closed" ELSE "early"]
    ELSE IF s[i] = BS
         THEN IF i = Len(s) THEN [value |-> acc, status |-> "unterminated"]
              ELSE IF s[i + 1] = DQ THEN ReadFrom(s, i + 2, Append(acc, DQ))
              ELSE IF s[i + 1] = BS THEN ReadFrom(s, i + 2, Append(acc, BS))
              ELSE IF s[i + 1] = "n" THEN ReadFrom(s, i + 2, Append(acc, NL))
              ELSE [value |-> acc, status |-> "badescape"]
    ELSE ReadFrom(s, i + 1, Append(acc, s[i]))

ReadLiteral(body) == ReadFrom(body \o <<DQ>>, 1, <<>>)

----------------------------------------------------------------------------
(* Requests *)

ToolNames == {"view", "run", "delete"}

\* arguments: dict | None; keys is the dict's key set, code the value
\* stored under "code" when that key is present
NoArguments == [none |-> TRUE, keys |-> {}, code |-> <<>>]

EmptyDict == [none |-> FALSE, keys |-> {}, code |-> <<>>]

OtherDict == [none |-> FALSE, keys |-> {"other"}, code |-> <<>>]

CodeDict(c) == [none |-> FALSE, keys |-> {"code"}, code |-> c]

ArgCodes == {<<>>, <<"a">>}

RunArguments ==
    {NoArguments, EmptyDict, OtherDict} \cup {CodeDict(c) : c \in ArgCodes}

ArgumentsFor(name) == IF name = "run" THEN RunArguments ELSE {NoArguments}

NoRequest == [name |-> "", arguments |-> NoArguments]

----------------------------------------------------------------------------
(* Content items and exceptions *)

TextContent(t) ==
    [type |-> "text", text |-> t, mimeType |-> "", data |-> ""]

ImageContent(d) ==
    [type |-> "image", text |-> <<>>, mimeType |-> "image/jpeg", data |-> d]

NoException == [type |-> "none", text |-> <<>>]

ValueError(t) == [type |-> "ValueError", text |-> t]

KeyError(t) == [type |-> "KeyError", text |-> t]

----------------------------------------------------------------------------
(* The host and the child process *)

Illustrator == "Adobe Illustrator"

Apps == {Illustrator, "Finder"}

FileStates == {"absent", "empty", "png", "corrupt"}

NoChild ==
    [status |-> "none", kind |-> "", script |-> <<>>, step |-> "",
     frontApp |-> "", captureResult |-> <<>>, failed |-> {},
     returncode |-> 0, stdout |-> <<>>, stderr |-> <<>>]

WindowInfo == <<"0", ",", "0", ",", "8", ",", "6">>

ErrMsg == <<"Invalid index.">>

ExecError == <<"execution error">>

RunStdouts == {<<>>, <<"h", "i", NL>>, Sentinel \o <<SP, "x", NL>>}

RunOutcomes ==
    {[returncode |-> rc, stdout |-> out,
      stderr |-> IF rc = 0 THEN <<>> ELSE ExecError] :
        rc \in {0, 1}, out \in RunStdouts}

\* faulty variant (C8): the try block wrapped around the whole script
CaughtEverything(step) == TRUE

\* the steps of the control script inside its try ... on error block
Caught(step) == step \in {"geometry", "screencapture"}

\* faulty variant (C7): the restoration placed inside the try block, skipped on error
AfterCatchSkipRestore == "return"

\* where the control script continues after the on error handler
AfterCatch == "restore"

\* osascript: an error outside every try block ends the script; nothing is
\* written to stdout and the interpreter exits non-zero
Abort(ch, step) ==
    [ch EXCEPT !.status = "exited", !.step = "aborted",
               !.failed = @ \cup {step},
               !.returncode = 1, !.stdout = <<>>, !.stderr = ExecError]

\* osascript: return captureResult prints the value and a newline
Return(ch) ==
    [ch EXCEPT !.status = "exited", !.step = "returned",
               !.returncode = 0, !.stdout = ch.captureResult \o <<NL>>,
               !.stderr = <<>>]

----------------------------------------------------------------------------
(* The event loop *)

\* faulty variant (C9): the child awaited with asyncio instead of subprocess.run
AtAwaitChild(p) ==
    p \in {"idle", "received", "done", "capture_wait", "run_wait"}

\* positions of a handleCallTool coroutine at which the event loop may run
\* another task: before it starts and after it returns. subprocess.run
\* blocks the thread, so waiting for the child is not such a position.
AtAwait(p) == p \in {"idle", "received", "done"}

Runnable(c) == \A d \in CallIds \ {c} : AtAwait(pc[d])

----------------------------------------------------------------------------
(* Response mapping *)

\* faulty variant (C6): the exit code of the child is not looked at
ProcessFailedNever(rc) == FALSE

ProcessFailed(rc) == rc # 0

\* faulty variant (C2): delete=False without the unlink of the finally block
ReleaseTempLeak(fs) == fs

ReleaseTemp(fs) == IF fs # "absent" THEN "absent" ELSE fs

CaptureResponse(rc, out, err, fs) ==
    IF ProcessFailed(rc)
    THEN <<TextContent(<<"Failed to capture Illustrator window: ">> \o err)>>
    ELSE LET result_info == Strip(out) IN
         IF StartsWith(result_info, Sentinel)
         THEN <<TextContent(<<"Failed to capture Illustrator: ">>
                            \o result_info)>>
         ELSE IF fs \in {"absent", "empty"}
         THEN <<TextContent(
                  <<"Screenshot file was not created or is empty">>)>>
         ELSE IF fs = "corrupt"
         THEN <<TextContent(
                  <<"Exception while capturing Illustrator window: ",
                    "cannot identify image file">>)>>
         ELSE <<ImageContent("base64 jpeg")>>

RunResponse(rc, out, err) ==
    IF rc # 0
    THEN <<TextContent(<<"Error executing script: ">> \o err)>>
    ELSE <<TextContent(<<"Script executed successfully">>
                       \o (IF out # <<>> THEN <<"\nOutput: ">> \o out
                           ELSE <<>>))>>

\* faulty variant (C4): only the truth value of arguments is tested
MissingCodeFalsyOnly(arguments) ==
    \/ arguments.none
    \/ arguments.keys = {}

MissingCode(arguments) ==
    \/ arguments.none
    \/ arguments.keys = {}
    \/ "code" \notin arguments.keys

----------------------------------------------------------------------------
(* Actions of the dispatcher *)

Receive(c, name, arguments) ==
    /\ pc[c] = "idle"
    /\ \A d \in CallIds : d < c => pc[d] # "idle"
    /\ Runnable(c)
    /\ pc' = [pc EXCEPT ![c] = "received"]
    /\ req' = [req EXCEPT ![c] = [name |-> name, arguments |-> arguments]]
    /\ UNCHANGED <<child, launches, files, created, fileSeen, response,
                   raised, frontmost>>
    /\ UNCHANGED escapeVars

\* handleCallTool, name == "view": captureIllustrator up to subprocess.run
CallView(c) ==
    /\ pc[c] = "received"
    /\ Runnable(c)
    /\ req[c].name = "view"
    /\ files' = [files EXCEPT ![c] = "empty"]
    /\ created' = [created EXCEPT ![c] = TRUE]
    /\ child' = [child EXCEPT ![c] =
                    [NoChild EXCEPT !.status = "running", !.kind = "capture",
                                    !.step = "saveFront"]]
    /\ launches' = [launches EXCEPT ![c] = @ + 1]
    /\ pc' = [pc EXCEPT ![c] = "capture_wait"]
    /\ UNCHANGED <<req, fileSeen, response, raised, frontmost>>
    /\ UNCHANGED escapeVars

\* handleCallTool, name == "run", the validation on line 198 rejects
CallRunNoCode(c) ==
    /\ pc[c] = "received"
    /\ Runnable(c)
    /\ req[c].name = "run"
    /\ MissingCode(req[c].arguments)
    /\ response' = [response EXCEPT ![c] =
                       <<TextContent(<<"No code provided">>)>>]
    /\ pc' = [pc EXCEPT ![c] = "done"]
    /\ UNCHANGED <<req, child, launches, files, created, fileSeen, raised,
                   frontmost>>
    /\ UNCHANGED escapeVars

\* handleCallTool, name == "run": arguments["code"], which raises when the
\* key is not there, then runIllustratorScript up to subprocess.run
CallRun(c) ==
    /\ pc[c] = "received"
    /\ Runnable(c)
    /\ req[c].name = "run"
    /\ ~MissingCode(req[c].arguments)
    /\ IF "code" \in req[c].arguments.keys
       THEN /\ child' = [child EXCEPT ![c] =
                    [NoChild EXCEPT !.status = "running", !.kind = "run",
                                    !.script = Escape(req[c].arguments.code),
                                    !.step = "javascript"]]
            /\ launches' = [launches EXCEPT ![c] = @ + 1]
            /\ pc' = [pc EXCEPT ![c] = "run_wait"]
            /\ UNCHANGED raised
       ELSE /\ raised' = [raised EXCEPT ![c] = KeyError(<<"code">>)]
            /\ pc' = [pc EXCEPT ![c] = "done"]
            /\ UNCHANGED <<child, launches>>
    /\ UNCHANGED <<req, files, created, fileSeen, response, frontmost>>
    /\ UNCHANGED escapeVars

\* handleCallTool, the else branch
CallUnknown(c) ==
    /\ pc[c] = "received"
    /\ Runnable(c)
    /\ req[c].name \notin {"view", "run"}
    /\ raised' = [raised EXCEPT ![c] =
                     ValueError(<<"Unknown tool: ", req[c].name>>)]
    /\ pc' = [pc EXCEPT ![c] = "done"]
    /\ UNCHANGED <<req, child, launches, files, created, fileSeen, response,
                   frontmost>>
    /\ UNCHANGED escapeVars

\* the osascript child of a run call ends
RunChildExit(c, o) ==
    /\ child[c].status = "running"
    /\ child[c].kind = "run"
    /\ child' = [child EXCEPT ![c] =
                    [@ EXCEPT !.status = "exited", !.step = "returned",
                              !.returncode = o.returncode,
                              !.stdout = o.stdout, !.stderr = o.stderr]]
    /\ UNCHANGED <<pc, req, launches, files, created, fileSeen, response,
                   raised, frontmost>>
    /\ UNCHANGED escapeVars

\* runIllustratorScript after subprocess.run returned
RunReturn(c) ==
    /\ pc[c] = "run_wait"
    /\ Runnable(c)
    /\ child[c].status = "exited"
    /\ response' = [response EXCEPT ![c] =
                       RunResponse(child[c].returncode, child[c].stdout,
                                   child[c].stderr)]
    /\ pc' = [pc EXCEPT ![c] = "done"]
    /\ UNCHANGED <<req, child, launches, files, created, fileSeen, raised,
                   frontmost>>
    /\ UNCHANGED escapeVars

\* captureIllustrator after subprocess.run returned, with its finally block
CaptureReturn(c) ==
    /\ pc[c] = "capture_wait"
    /\ Runnable(c)
    /\ child[c].status = "exited"
    /\ response' = [response EXCEPT ![c] =
                       CaptureResponse(child[c].returncode, child[c].stdout,
                                       child[c].stderr, files[c])]
    /\ fileSeen' = [fileSeen EXCEPT ![c] = files[c]]
    /\ files' = [files EXCEPT ![c] = ReleaseTemp(@)]
    /\ pc' = [pc EXCEPT ![c] = "done"]
    /\ UNCHANGED <<req, child, launches, created, raised, frontmost>>
    /\ UNCHANGED escapeVars

----------------------------------------------------------------------------
(* Steps of the capture control script, run by the osascript child *)

\* a step of the control script raises an AppleScript error
ScriptFail(ch, step) ==
    IF Caught(step)
    THEN [ch EXCEPT !.captureResult = Sentinel \o <<SP>> \o ErrMsg,
                    !.failed = @ \cup {step},
                    !.step = AfterCatch]
    ELSE Abort(ch, step)

ScriptStep(c, step) ==
    /\ child[c].status = "running"
    /\ child[c].kind = "capture"
    /\ child[c].step = step

\* set frontApp to name of first process where frontmost is true
ScriptSaveFront(c, ok) ==
    /\ ScriptStep(c, "saveFront")
    /\ child' = [child EXCEPT ![c] =
                    IF ok
                    THEN [@ EXCEPT !.frontApp = frontmost,
                                   !.step = "activate"]
                    ELSE ScriptFail(@, "saveFront")]
    /\ UNCHANGED <<pc, req, launches, files, created, fileSeen, response,
                   raised, frontmost>>
    /\ UNCHANGED escapeVars

\* tell application "Adobe Illustrator" to activate, delay 1.5
ScriptActivate(c, ok) ==
    /\ ScriptStep(c, "activate")
    /\ child' = [child EXCEPT ![c] =
                    IF ok THEN [@ EXCEPT !.step = "geometry"]
                    ELSE ScriptFail(@, "activate")]
    /\ frontmost' = IF ok THEN Illustrator ELSE frontmost
    /\ UNCHANGED <<pc, req, launches, files, created, fileSeen, response,
                   raised>>
    /\ UNCHANGED escapeVars

\* position and size of the first window
ScriptGeometry(c, ok) ==
    /\ ScriptStep(c, "geometry")
    /\ child' = [child EXCEPT ![c] =
                    IF ok THEN [@ EXCEPT !.step = "screencapture"]
                    ELSE ScriptFail(@, "geometry")]
    /\ UNCHANGED <<pc, req, launches, files, created, fileSeen, response,
                   raised, frontmost>>
    /\ UNCHANGED escapeVars

\* do shell script "screencapture -R ... -x path"; fs is what the utility
\* leaves at the path
ScriptScreencapture(c, ok, fs) ==
    /\ ScriptStep(c, "screencapture")
    /\ ~ok => fs = files[c]
    /\ child' = [child EXCEPT ![c] =
                    IF ok
                    THEN [@ EXCEPT !.captureResult = SuccessTag \o WindowInfo,
                                   !.step = "restore"]
                    ELSE ScriptFail(@, "screencapture")]
    /\ files' = [files EXCEPT ![c] = fs]
    /\ UNCHANGED <<pc, req, launches, created, fileSeen, response, raised,
                   frontmost>>
    /\ UNCHANGED escapeVars

\* if frontApp is not "Adobe Illustrator" then tell application frontApp
\* to activate
ScriptRestore(c, ok) ==
    /\ ScriptStep(c, "restore")
    /\ child[c].frontApp = Illustrator => ok
    /\ child' = [child EXCEPT ![c] =
                    IF ok THEN [@ EXCEPT !.step = "return"]
                    ELSE ScriptFail(@, "restore")]
    /\ frontmost' = IF ok /\ child[c].frontApp # Illustrator
                    THEN child[c].frontApp
                    ELSE frontmost
    /\ UNCHANGED <<pc, req, launches, files, created, fileSeen, response,
                   raised>>
    /\ UNCHANGED escapeVars

\* return captureResult
ScriptReturn(c) ==
    /\ ScriptStep(c, "return")
    /\ child' = [child EXCEPT ![c] = Return(@)]
    /\ UNCHANGED <<pc, req, launches, files, created, fileSeen, response,
                   raised, frontmost>>
    /\ UNCHANGED escapeVars

----------------------------------------------------------------------------
(* The dispatcher's specification *)

NoDecoded == [value |-> <<>>, status |-> "none"]

InitDispatch ==
    /\ pc = [c \in CallIds |-> "idle"]
    /\ req = [c \in CallIds |-> NoRequest]
    /\ child = [c \in CallIds |-> NoChild]
    /\ launches = [c \in CallIds |-> 0]
    /\ files = [c \in CallIds |-> "absent"]
    /\ created = [c \in CallIds |-> FALSE]
    /\ fileSeen = [c \in CallIds |-> "absent"]
    /\ response = [c \in CallIds |-> <<>>]
    /\ raised = [c \in CallIds |-> NoException]

Init ==
    /\ InitDispatch
    /\ frontmost \in Apps
    /\ code = <<>>
    /\ literal = <<>>
    /\ decoded = NoDecoded
    /\ epc = "off"

Next ==
    \E c \in CallIds :
        \/ \E name \in ToolNames : \E arguments \in ArgumentsFor(name) :
              Receive(c, name, arguments)
        \/ CallView(c)
        \/ CallRunNoCode(c)
        \/ CallRun(c)
        \/ CallUnknown(c)
        \/ \E o \in RunOutcomes : RunChildExit(c, o)
        \/ RunReturn(c)
        \/ \E ok \in BOOLEAN : ScriptSaveFront(c, ok)
        \/ \E ok \in BOOLEAN : ScriptActivate(c, ok)
        \/ \E ok \in BOOLEAN : ScriptGeometry(c, ok)
        \/ \E ok \in BOOLEAN : \E fs \in FileStates :
              ScriptScreencapture(c, ok, fs)
        \/ \E ok \in BOOLEAN : ScriptRestore(c, ok)
        \/ ScriptReturn(c)
        \/ CaptureReturn(c)

Spec == Init /\ [][Next]_vars

----------------------------------------------------------------------------
(* The escaping pipeline as a specification of its own *)

EscapeCode ==
    /\ epc = "start"
    /\ literal' = Escape(code)
    /\ epc' = "escaped"
    /\ UNCHANGED <<code, decoded>>
    /\ UNCHANGED dispatchVars

ReadScript ==
    /\ epc = "escaped"
    /\ decoded' = ReadLiteral(literal)
    /\ epc' = "read"
    /\ UNCHANGED <<code, literal>>
    /\ UNCHANGED dispatchVars

InitEscape ==
    /\ InitDispatch
    /\ frontmost = "Finder"
    /\ code \in Codes
    /\ literal = <<>>
    /\ decoded = NoDecoded
    /\ epc = "start"

NextEscape == EscapeCode \/ ReadScript

SpecEscape == InitEscape /\ [][NextEscape]_vars

----------------------------------------------------------------------------
(* Properties *)

WaitPositions == {"capture_wait", "run_wait"}

OneText(r) == Len(r) = 1 /\ r[1].type = "text"

NoImage(r) == \A i \in 1 .. Len(r) : r[i].type # "image"

Mentions(t, word) == \E i \in 1 .. Len(t) : t[i] = word

IsRunSuccess(r) ==
    /\ OneText(r)
    /\ StartsWith(r[1].text, <<"Script executed successfully">>)

IsValidationError(r) == r = <<TextContent(<<"No code provided">>)>>

\* C1: a run call that reached the host reports success exactly when the
\* child neither exited non-zero nor wrote a stdout that starts with the
\* sentinel "ERROR:".
C1_RunSuccessIffNoErrorChannel ==
    \A c \in CallIds :
        (pc[c] = "done" /\ req[c].name = "run" /\ launches[c] > 0)
        => (IsRunSuccess(response[c])
            <=> ~(child[c].returncode # 0
                  \/ StartsWith(child[c].stdout, Sentinel)))

\* C2: once a view call has returned, the temp file path it created does
\* not exist, on whatever path it returned.
C2_TempFileReleased ==
    \A c \in CallIds :
        (pc[c] = "done" /\ created[c]) => files[c] = "absent"

\* a view call returned an error while the capture had left bytes in its file
C2_Witness ==
    \E c \in CallIds :
        /\ pc[c] = "done"
        /\ created[c]
        /\ fileSeen[c] \in {"png", "corrupt"}
        /\ OneText(response[c])

\* C3: a tool name outside {view, run} gets a structured error response
\* that names the tool, launches no child, and raises nothing out of
\* handleCallTool.
C3_UnknownToolStructuredError ==
    \A c \in CallIds :
        (pc[c] = "done" /\ req[c].name \notin {"view", "run"})
        => /\ raised[c].type = "none"
           /\ OneText(response[c])
           /\ Mentions(response[c][1].text, req[c].name)
           /\ launches[c] = 0

\* C4: a run call whose arguments are None, empty or lack the key code
\* launches no child process and returns the validation error.
C4_MissingCodeNoLaunch ==
    \A c \in CallIds :
        (/\ req[c].name = "run"
         /\ \/ req[c].arguments.none
            \/ req[c].arguments.keys = {}
            \/ "code" \notin req[c].arguments.keys)
        => /\ launches[c] = 0
           /\ child[c].status = "none"
           /\ pc[c] \notin WaitPositions
           /\ pc[c] = "done" => /\ IsValidationError(response[c])
                                /\ raised[c].type = "none"

\* a run call with a non-empty dict that has no key code has returned
C4_Witness ==
    \E c \in CallIds :
        /\ pc[c] = "done"
        /\ req[c].name = "run"
        /\ ~req[c].arguments.none
        /\ req[c].arguments.keys # {}
        /\ "code" \notin req[c].arguments.keys

\* C5: a run call whose code argument is the empty string launches no
\* child process and returns the validation error.
C5_EmptyCodeRejected ==
    \A c \in CallIds :
        (/\ req[c].name = "run"
         /\ "code" \in req[c].arguments.keys
         /\ req[c].arguments.code = <<>>)
        => /\ launches[c] = 0
           /\ pc[c] = "done" => IsValidationError(response[c])

\* C6: a view call whose child exited non-zero, or wrote the sentinel, or
\* left the image file missing or empty, returns exactly one text item and
\* no image; with a non-zero exit the text carries the child's stderr; an
\* image is returned only when none of the three conditions holds.
C6_CaptureErrorsAreText ==
    \A c \in CallIds :
        (pc[c] = "done" /\ req[c].name = "view")
        => LET bad == \/ child[c].returncode # 0
                      \/ StartsWith(child[c].stdout, Sentinel)
                      \/ fileSeen[c] \in {"absent", "empty"}
           IN /\ Len(response[c]) = 1
              /\ bad => OneText(response[c]) /\ NoImage(response[c])
              /\ ~NoImage(response[c]) => ~bad
              /\ child[c].returncode # 0
                 => response[c][1].text
                    = <<"Failed to capture Illustrator window: ">>
                      \o child[c].stderr

\* a view call whose script wrote the image and then aborted has returned
C6_Witness ==
    \E c \in CallIds :
        /\ pc[c] = "done"
        /\ req[c].name = "view"
        /\ child[c].returncode # 0
        /\ fileSeen[c] = "png"

\* C7: while the control script queries the geometry and captures, the
\* target application has the focus; when the script has run to completion,
\* after a capture that succeeded or one whose failure was caught, the focus
\* is on the application that was frontmost before.
C7_FocusRestored ==
    \A c \in CallIds :
        /\ (ScriptStep(c, "geometry") \/ ScriptStep(c, "screencapture"))
           => frontmost = Illustrator
        /\ (/\ pc[c] = "capture_wait"
            /\ child[c].status = "exited"
            /\ child[c].step = "returned")
           => frontmost = child[c].frontApp

\* a script whose capture failed and was caught ran to completion, with
\* another application frontmost before
C7_Witness ==
    \E c \in CallIds :
        /\ pc[c] = "capture_wait"
        /\ child[c].status = "exited"
        /\ child[c].step = "returned"
        /\ child[c].failed # {}
        /\ child[c].frontApp = "Finder"

\* C8 as stated: a failure of any step of the control script makes it
\* return a sentinel-prefixed string with exit code 0.
C8_AnyStepFailureYieldsSentinel ==
    \A c \in CallIds :
        (/\ child[c].kind = "capture"
         /\ child[c].status = "exited"
         /\ child[c].failed # {})
        => /\ child[c].returncode = 0
           /\ StartsWith(child[c].stdout, Sentinel)

\* C8 as amended: a failure of the geometry query or of the screen capture
\* makes the script return a sentinel-prefixed string with exit code 0 when
\* no other step fails; a failure of recording the frontmost application,
\* of activating the target or of restoring the previous application ends
\* the script with a non-zero exit and no sentinel on stdout.
C8_CaughtStepsYieldSentinel ==
    \A c \in CallIds :
        (child[c].kind = "capture" /\ child[c].status = "exited")
        => /\ child[c].failed \cap {"saveFront", "activate", "restore"} # {}
              => /\ child[c].returncode # 0
                 /\ ~StartsWith(child[c].stdout, Sentinel)
           /\ (/\ child[c].failed # {}
               /\ child[c].failed \subseteq {"geometry", "screencapture"})
              => /\ child[c].returncode = 0
                 /\ StartsWith(child[c].stdout, Sentinel)

\* a script whose screen capture failed has returned the sentinel
C8_Witness ==
    \E c \in CallIds :
        /\ child[c].kind = "capture"
        /\ child[c].status = "exited"
        /\ child[c].failed = {"screencapture"}
        /\ StartsWith(child[c].stdout, Sentinel)

\* C9: at most one child process is in flight, and while a call waits for
\* its child no other call is inside its handler.
C9_SingleFlight ==
    /\ Cardinality({c \in CallIds : child[c].status = "running"}) <= 1
    /\ \A c, d \in CallIds :
          (c # d /\ pc[c] \in WaitPositions) => AtAwait(pc[d])
    /\ \A c, d \in CallIds :
          (c # d /\ pc[c] \in WaitPositions) => pc[d] \notin WaitPositions

\* a second call's child runs after a first call launched one and returned
C9_Witness ==
    \E c, d \in CallIds :
        /\ c # d
        /\ pc[c] = "done"
        /\ launches[c] = 1
        /\ child[d].status = "running"

\* C10: the control script's string literal denotes the caller's code and
\* ends at the template's closing quote.
C10_EscapeRoundTrip ==
    epc = "read" => /\ decoded.status = "closed"
                    /\ decoded.value = code

====
